---- MODULE Spec2Model ----
(***************************************************************************)
(* A model of src/main.py: the FastAPI handlers register, login,           *)
(* create_notification, list_notifications and mark_all_read over the two  *)
(* collections "authuser" and "notification" of a document database.       *)
(*                                                                         *)
(* The handlers are plain `def` functions, which FastAPI runs in a thread   *)
(* pool: requests run in parallel and every datastore call of a handler is *)
(* one atomic step, so the find_one and the insert of register (and of     *)
(* create_notification) are two steps that other requests may separate.    *)
(*                                                                         *)
(* database.py (db, create_document) is not part of the sources at hand;   *)
(* create_document is modelled from the specification: it inserts the      *)
(* document, the datastore stamps created_at at insert time and the new    *)
(* identifier is returned as text.                                         *)
(***************************************************************************)
EXTENDS Integers, Sequences, FiniteSets, TLC

\* ------------------------------------------------------------ bounds
\* Documents the collections may grow to in one behaviour.
MaxUsers == 2
MaxNotifications == 2

\* Request-handling threads of the server's pool.
Threads == {"w1", "w2"}

\* Inputs of the requests: two people who both claim ann@x.com, and a second
\* address; two passwords; a notification for each address.
Emails == {"ann@x.com", "bob@x.com"}
Passwords == {"pw1", "pw2"}
RegisterRequests ==
    { [name |-> "Ann", email |-> "ann@x.com", password |-> "pw1"],
      [name |-> "Bob", email |-> "ann@x.com", password |-> "pw2"],
      [name |-> "Bob", email |-> "bob@x.com", password |-> "pw2"] }
CreateNotificationRequests ==
    { [email |-> "ann@x.com", title |-> "hi", body |-> "first"],
      [email |-> "bob@x.com", title |-> "yo", body |-> "second"] }

None == "None"

VARIABLES
    db,            \* the datastore handle: "up", or None (the unavailable sentinel)
    authuser,      \* collection authuser: documents in insertion order
    notification,  \* collection notification: documents in insertion order
    now,           \* the datastore's clock at its latest insert, in units of its resolution
    pc,            \* per thread: where its handler stands
    req,           \* per thread: the request its handler is serving
    last,          \* the response sent most recently
    registered,    \* the requests on which register returned success
    touched        \* whether any datastore read or write was ever issued

vars == <<db, authuser, notification, now, pc, req, last, registered, touched>>

\* ------------------------------------------------------------ helpers
Range(s) == {s[i] : i \in DOMAIN s}

\* sha256(pw.encode("utf-8")).hexdigest(): a digest is not the password, and
\* distinct passwords of the model have distinct digests.
_hash_password(pw) == <<"sha256", pw>>

\* str(result.inserted_id), str(d.get("_id"))
str(oid) == <<"oid", oid>>

\* datetime.isoformat(): the text of a timestamp, one text per timestamp.
isoformat(ts) == <<"iso8601", ts>>

\* The ObjectId the datastore gives the next inserted document.
NewId == Len(authuser) + Len(notification) + 1

NoReq == [op |-> "none", email |-> None, solo |-> TRUE]
NoResp == [req |-> NoReq, status |-> 0, body |-> [detail |-> None], again |-> FALSE]

\* The pool gives a new request to its first idle thread.
Idle(t) == pc[t] = "idle" /\ (t = "w1" \/ pc["w1"] # "idle")

\* Threads between the find_one and the insert of op.
Inserting(op) == {t \in Threads : pc[t] = op}

HTTPException(code, detail) == [status |-> code, body |-> [detail |-> detail]]
Ok(body) == [status |-> 200, body |-> body]

\* The handler of thread t returns response r to request q; `again` tells
\* that it answers a mark_all_read and that the response before it answered
\* one for the same email. Every register still in flight on another thread
\* has now overlapped with a response.
Respond(t, q, r) ==
    /\ last' = [req |-> q, status |-> r.status, body |-> r.body,
                again |-> /\ q.op = "mark_all_read"
                          /\ last.req.op = q.op /\ last.req.email = q.email]
    /\ pc' = [pc EXCEPT ![t] = "idle"]
    /\ req' = [u \in Threads |->
                 IF u = t \/ pc[u] = "idle" THEN NoReq
                 ELSE IF req[u].op = "register" THEN [req[u] EXCEPT !.solo = FALSE]
                 ELSE req[u]]

\* The handler of thread t goes on from its find_one to its insert.
Proceed(t, q, label) ==
    /\ pc' = [pc EXCEPT ![t] = label]
    /\ req' = [req EXCEPT ![t] = q]
    /\ UNCHANGED last

\* db[collection].find_one({"email": email}): the documents it may return.
FindUsers(email) == {u \in Range(authuser) : u.email = email}

\* db["notification"].find({"user_email": email}): positions of the matches.
FindNotifications(email) == {i \in DOMAIN notification : notification[i].user_email = email}

\* ------------------------------------------------------------ initial state
Init ==
    /\ db \in {"up", None}
    /\ authuser = <<>>
    /\ notification = <<>>
    /\ now = 0
    /\ pc = [t \in Threads |-> "idle"]
    /\ req = [t \in Threads |-> NoReq]
    /\ last = NoResp
    /\ registered = {}
    /\ touched = FALSE

\* ------------------------------------------------------------ persistence gateway
\* create_document(collection_name, document): the datastore gives the document
\* its identifier; the identifier is returned as text.
create_document(doc) == [doc EXCEPT !._id = NewId]

\* A notification is stamped created_at by the datastore at insert time: since
\* its previous stamp the clock has advanced (tick = 1) or, within its
\* resolution, has not (tick = 0).
Stamp(doc, tick) == [doc EXCEPT !.created_at = now + tick]
Ticks == IF notification = <<>> THEN {1} ELSE {0, 1}

\* ------------------------------------------------------------ auth
AuthResponse(name, email, avatar_url) ==
    [name |-> name, email |-> email, avatar_url |-> avatar_url]

\* register without its find_one: the existence check left out.
Register_NoDuplicateCheck(t, data) ==
    LET q == [op |-> "register", email |-> data.email, solo |-> TRUE,
              name |-> data.name, password |-> data.password] IN
    /\ Idle(t)
    /\ IF db = None
       THEN /\ Respond(t, q, HTTPException(500, "Database not available"))
            /\ UNCHANGED touched
       ELSE /\ touched' = TRUE
            /\ Len(authuser) + Cardinality(Inserting("register_insert")) < MaxUsers
            /\ Proceed(t, q, "register_insert")
    /\ UNCHANGED <<db, authuser, notification, now, registered>>

\* register, up to and including its find_one.
Register(t, data) ==
    LET q == [op |-> "register", email |-> data.email, solo |-> TRUE,
              name |-> data.name, password |-> data.password] IN
    /\ Idle(t)
    /\ IF db = None
       THEN /\ Respond(t, q, HTTPException(500, "Database not available"))
            /\ UNCHANGED touched
       ELSE /\ touched' = TRUE
            /\ IF FindUsers(data.email) # {}
               THEN Respond(t, q, HTTPException(400, "Email already registered"))
               ELSE /\ Len(authuser) + Cardinality(Inserting("register_insert")) < MaxUsers
                    /\ Proceed(t, q, "register_insert")
    /\ UNCHANGED <<db, authuser, notification, now, registered>>

\* register, from create_document("authuser", doc) to its return.
RegisterInsert(t) ==
    LET q == req[t]
        doc == [_id |-> None, name |-> q.name, email |-> q.email,
                password_hash |-> _hash_password(q.password),
                avatar_url |-> None]
    IN
    /\ pc[t] = "register_insert"
    /\ authuser' = Append(authuser, create_document(doc))
    /\ registered' = registered \cup {[name |-> q.name, email |-> q.email, password |-> q.password]}
    /\ Respond(t, q, Ok(AuthResponse(q.name, q.email, None)))
    /\ UNCHANGED <<db, notification, now, touched>>

\* login without its test of the handle: db["authuser"] on None raises, and the
\* framework answers its own 500.
Login_NoDbCheck(t, email, password) ==
    LET q == [op |-> "login", email |-> email, solo |-> TRUE, password |-> password] IN
    /\ Idle(t)
    /\ IF db = None
       THEN /\ Respond(t, q, HTTPException(500, "Internal Server Error"))
            /\ UNCHANGED touched
       ELSE /\ touched' = TRUE
            /\ IF FindUsers(email) = {}
               THEN Respond(t, q, HTTPException(401, "Invalid credentials"))
               ELSE \E user \in FindUsers(email) :
                      IF user.password_hash # _hash_password(password)
                      THEN Respond(t, q, HTTPException(401, "Invalid credentials"))
                      ELSE Respond(t, q, Ok(AuthResponse(user.name, user.email, user.avatar_url)))
    /\ UNCHANGED <<db, authuser, notification, now, registered>>

\* login: one find_one, then the comparison of the digests.
Login(t, email, password) ==
    LET q == [op |-> "login", email |-> email, solo |-> TRUE, password |-> password] IN
    /\ Idle(t)
    /\ IF db = None
       THEN /\ Respond(t, q, HTTPException(500, "Database not available"))
            /\ UNCHANGED touched
       ELSE /\ touched' = TRUE
            /\ IF FindUsers(email) = {}
               THEN Respond(t, q, HTTPException(401, "Invalid credentials"))
               ELSE \E user \in FindUsers(email) :
                      IF user.password_hash # _hash_password(password)
                      THEN Respond(t, q, HTTPException(401, "Invalid credentials"))
                      ELSE Respond(t, q, Ok(AuthResponse(user.name, user.email, user.avatar_url)))
    /\ UNCHANGED <<db, authuser, notification, now, registered>>

\* ------------------------------------------------------------ notifications
\* create_notification without its find_one: the check for a known user left out.
CreateNotification_NoUserCheck(t, data) ==
    LET q == [op |-> "create_notification", email |-> data.email, solo |-> TRUE,
              title |-> data.title, body |-> data.body] IN
    /\ Idle(t)
    /\ IF db = None
       THEN /\ Respond(t, q, HTTPException(500, "Database not available"))
            /\ UNCHANGED touched
       ELSE /\ touched' = TRUE
            /\ Len(notification) + Cardinality(Inserting("notification_insert"))
                  < MaxNotifications
            /\ Proceed(t, q, "notification_insert")
    /\ UNCHANGED <<db, authuser, notification, now, registered>>

\* create_notification, up to and including its find_one.
CreateNotification(t, data) ==
    LET q == [op |-> "create_notification", email |-> data.email, solo |-> TRUE,
              title |-> data.title, body |-> data.body] IN
    /\ Idle(t)
    /\ IF db = None
       THEN /\ Respond(t, q, HTTPException(500, "Database not available"))
            /\ UNCHANGED touched
       ELSE /\ touched' = TRUE
            /\ IF FindUsers(data.email) = {}
               THEN Respond(t, q, HTTPException(404, "User not found"))
               ELSE /\ Len(notification) + Cardinality(Inserting("notification_insert"))
                          < MaxNotifications
                    /\ Proceed(t, q, "notification_insert")
    /\ UNCHANGED <<db, authuser, notification, now, registered>>

\* create_notification storing the body as the title and the title as the body.
CreateNotificationInsert_SwapsTitleBody(t) ==
    LET q == req[t]
        doc == [_id |-> None, user_email |-> q.email, title |-> q.body, body |-> q.title,
                read |-> FALSE, created_at |-> None]
        nid == str(NewId)
    IN
    /\ pc[t] = "notification_insert"
    /\ \E tick \in Ticks :
          /\ notification' = Append(notification, Stamp(create_document(doc), tick))
          /\ now' = now + tick
    /\ Respond(t, q, Ok([id |-> nid, status |-> "created"]))
    /\ UNCHANGED <<db, authuser, registered, touched>>

\* create_notification, from create_document("notification", doc) to its return.
CreateNotificationInsert(t) ==
    LET q == req[t]
        doc == [_id |-> None, user_email |-> q.email, title |-> q.title, body |-> q.body,
                read |-> FALSE, created_at |-> None]
        nid == str(NewId)
    IN
    /\ pc[t] = "notification_insert"
    /\ \E tick \in Ticks :
          /\ notification' = Append(notification, Stamp(create_document(doc), tick))
          /\ now' = now + tick
    /\ Respond(t, q, Ok([id |-> nid, status |-> "created"]))
    /\ UNCHANGED <<db, authuser, registered, touched>>

NotificationItem(d) ==
    [id |-> str(d._id), title |-> d.title, body |-> d.body, read |-> d.read,
     created_at |-> IF "created_at" \in DOMAIN d THEN isoformat(d.created_at) ELSE None]

\* sort("created_at", 1): ascending.
SortAscending(S) ==
    {o \in [1..Cardinality(S) -> S] :
        /\ \A i, j \in DOMAIN o : i # j => o[i] # o[j]
        /\ \A i, j \in DOMAIN o :
              i < j => notification[o[i]].created_at <= notification[o[j]].created_at}

\* cursor.sort("created_at", -1) over the documents at positions S: every order
\* of them in which created_at never increases. The datastore returns documents
\* of equal sort key in any order.
SortDescending(S) ==
    {o \in [1..Cardinality(S) -> S] :
        /\ \A i, j \in DOMAIN o : i # j => o[i] # o[j]
        /\ \A i, j \in DOMAIN o :
              i < j => notification[o[i]].created_at >= notification[o[j]].created_at}

\* list_notifications: one find().sort(), read to its end.
ListNotifications(t, email) ==
    LET q == [op |-> "list_notifications", email |-> email, solo |-> TRUE] IN
    /\ Idle(t)
    /\ IF db = None
       THEN /\ Respond(t, q, HTTPException(500, "Database not available"))
            /\ UNCHANGED touched
       ELSE /\ touched' = TRUE
            /\ \E raw \in SortDescending(FindNotifications(email)) :
                  Respond(t, q, Ok([items |->
                      [i \in DOMAIN raw |-> NotificationItem(notification[raw[i]])]]))
    /\ UNCHANGED <<db, authuser, notification, now, registered>>

\* update_one in place of update_many: only the first match is set.
UpdateMany_One(email) ==
    LET M == {i \in DOMAIN notification :
                 notification[i].user_email = email /\ notification[i].read = FALSE}
    IN [i \in DOMAIN notification |->
          IF i \in M /\ (\A j \in M : i <= j)
          THEN [notification[i] EXCEPT !.read = TRUE]
          ELSE notification[i]]

\* The filter without "read": False and the update inverting read.
UpdateMany_Toggle(email) ==
    [i \in DOMAIN notification |->
        IF notification[i].user_email = email
        THEN [notification[i] EXCEPT !.read = ~notification[i].read]
        ELSE notification[i]]

\* The filter without "user_email": every unread Notification is set.
UpdateMany_AllUsers(email) ==
    [i \in DOMAIN notification |->
        IF notification[i].read = FALSE
        THEN [notification[i] EXCEPT !.read = TRUE]
        ELSE notification[i]]

\* update_many({"user_email": email, "read": False}, {"$set": {"read": True}})
UpdateMany(email) ==
    [i \in DOMAIN notification |->
        IF notification[i].user_email = email /\ notification[i].read = FALSE
        THEN [notification[i] EXCEPT !.read = TRUE]
        ELSE notification[i]]

\* mark_all_read: one update_many.
MarkAllRead(t, email) ==
    LET q == [op |-> "mark_all_read", email |-> email, solo |-> TRUE] IN
    /\ Idle(t)
    /\ IF db = None
       THEN /\ Respond(t, q, HTTPException(500, "Database not available"))
            /\ UNCHANGED <<touched, notification>>
       ELSE /\ touched' = TRUE
            /\ notification' = UpdateMany(email)
            /\ Respond(t, q, Ok([status |-> "ok"]))
    /\ UNCHANGED <<db, authuser, now, registered>>

\* ------------------------------------------------------------ the server
Next ==
    \/ \E t \in Threads, data \in RegisterRequests : Register(t, data)
    \/ \E t \in Threads : RegisterInsert(t)
    \/ \E t \in Threads, email \in Emails, password \in Passwords : Login(t, email, password)
    \/ \E t \in Threads, data \in CreateNotificationRequests : CreateNotification(t, data)
    \/ \E t \in Threads : CreateNotificationInsert(t)
    \/ \E t \in Threads, email \in Emails : ListNotifications(t, email)
    \/ \E t \in Threads, email \in Emails : MarkAllRead(t, email)

Spec == Init /\ [][Next]_vars

\* ------------------------------------------------------------ properties
EmailCount(email) == Cardinality({i \in DOMAIN authuser : authuser[i].email = email})

\* A response was sent in this step, to a request for op.
Responds(op) == last' # last /\ last'.req.op = op

Detail(text) == [detail |-> text]

\* C1: in every reachable state, no two documents of authuser have the same email.
C1_EmailUnique ==
    \A i, j \in DOMAIN authuser : authuser[i].email = authuser[j].email => i = j

\* C2: when register succeeds for an email and, after it has returned, register
\* is called again with that email (no other response in between), the second
\* call fails with 400 'Email already registered' and inserts nothing, one User
\* has that email, and its name and password_hash are the first call's.
C2_RegisterTwice ==
    [][ ( /\ last.req.op = "register" /\ last.status = 200 /\ last.req.solo
          /\ Responds("register") /\ last'.req.solo
          /\ last'.req.email = last.req.email )
        => ( /\ last'.status = 400
             /\ last'.body = Detail("Email already registered")
             /\ authuser' = authuser /\ notification' = notification
             /\ EmailCount(last.req.email)' = 1
             /\ \A u \in FindUsers(last.req.email)' :
                   /\ u.name = last.req.name
                   /\ u.password_hash = _hash_password(last.req.password) ) ]_vars

\* C2 witness: a second register of a registered email, by another name and
\* password, has been refused, and the one User of that email is the first.
C2_Witness ==
    /\ last.req.op = "register" /\ last.status = 400 /\ last.req.solo
    /\ EmailCount(last.req.email) = 1
    /\ \E u \in FindUsers(last.req.email) : u.name # last.req.name

\* C3: a login with the email and password of a register that returned success
\* succeeds and returns that registration's name, email and avatar_url; a login
\* whose email matches no User, or whose digest differs from the stored one,
\* returns 401 and no user record.
C3_LoginAfterRegister ==
    (last.req.op = "login" /\ db # None) =>
        /\ \A r \in registered :
              (r.email = last.req.email /\ r.password = last.req.password)
              => (last.status = 200 /\ last.body = AuthResponse(r.name, r.email, None))
        /\ (\A u \in FindUsers(last.req.email) :
                u.password_hash # _hash_password(last.req.password))
              => (last.status = 401 /\ last.body = Detail("Invalid credentials"))

\* C4: create_notification for an email without a User returns 404 and leaves
\* both collections as they are; for an email with a User it appends exactly
\* one Notification with that user_email, the given title and body and
\* read = false, and returns status 'created' with the new document's identifier.
C4_CreateNotification ==
    [][ /\ (Responds("create_notification") /\ db # None
              /\ FindUsers(last'.req.email) = {})
           => (last'.status = 404 /\ last'.body = Detail("User not found"))
        /\ (Responds("create_notification") /\ last'.status = 404)
           => ( /\ FindUsers(last'.req.email) = {}
                /\ notification' = notification /\ authuser' = authuser )
        /\ (Responds("create_notification") /\ db # None /\ last'.status # 404)
           => ( /\ FindUsers(last'.req.email) # {}
                /\ last'.status = 200
                /\ authuser' = authuser
                /\ Len(notification') = Len(notification) + 1
                /\ SubSeq(notification', 1, Len(notification)) = notification
                /\ LET d == notification'[Len(notification')] IN
                     /\ d.user_email = last'.req.email
                     /\ d.title = last'.req.title
                     /\ d.body = last'.req.body
                     /\ d.read = FALSE
                     /\ \A n \in Range(notification) \cup Range(authuser) : n._id # d._id
                     /\ last'.body = [id |-> str(d._id), status |-> "created"] ) ]_vars

\* C4 witness: a notification was refused for an email without a User while
\* the Notification created for a User's email is stored, unread.
C4_Witness ==
    /\ last.req.op = "create_notification" /\ last.status = 404
    /\ \E n \in Range(notification) : n.read = FALSE /\ n.user_email # last.req.email
    /\ FindUsers(last.req.email) = {}

\* C5: after mark_all_read for an email every Notification of that email has
\* read = true and the response is status 'ok'; a second call for the same
\* email right after it leaves the datastore as it is and returns 'ok' too.
C5_MarkAllReadIdempotent ==
    /\ []( (last.req.op = "mark_all_read" /\ db # None) =>
             /\ last.status = 200 /\ last.body = [status |-> "ok"]
             /\ \A i \in FindNotifications(last.req.email) : notification[i].read = TRUE )
    /\ [][ ( /\ last.req.op = "mark_all_read" /\ last'.req.op = "mark_all_read"
             /\ last'.req.email = last.req.email )
           => (notification' = notification /\ authuser' = authuser) ]_vars

\* C5 witness: mark_all_read was answered twice in a row for an email that has
\* a Notification.
C5_Witness ==
    /\ last.req.op = "mark_all_read" /\ last.again
    /\ FindNotifications(last.req.email) # {}

\* Where the Notification at position i stands in the listing `items`.
Place(items, i) == CHOOSE k \in DOMAIN items : items[k].id = str(notification[i]._id)

\* The listing is exactly the Notifications of the email, each once.
ListsExactly(items, email) ==
    /\ Len(items) = Cardinality(FindNotifications(email))
    /\ \A i \in FindNotifications(email) :
          \E k \in DOMAIN items : items[k] = NotificationItem(notification[i])

\* C6 as stated: list_notifications returns exactly the Notifications of the
\* email, each once, and of two of them the one inserted later comes earlier.
C6_LaterInsertedFirst ==
    (last.req.op = "list_notifications" /\ db # None) =>
        /\ last.status = 200
        /\ ListsExactly(last.body.items, last.req.email)
        /\ \A i, j \in FindNotifications(last.req.email) :
              i < j => Place(last.body.items, j) < Place(last.body.items, i)

\* C6 amended: list_notifications returns exactly the Notifications of the
\* email, each once, ordered by created_at descending: of two of them with
\* created_at t1 < t2 the one from t2 comes earlier (Notifications of equal
\* created_at come in either order); no notifications, an empty list.
C6_ListSortedByCreatedAt ==
    (last.req.op = "list_notifications" /\ db # None) =>
        /\ last.status = 200
        /\ ListsExactly(last.body.items, last.req.email)
        /\ \A i, j \in FindNotifications(last.req.email) :
              notification[i].created_at < notification[j].created_at
              => Place(last.body.items, j) < Place(last.body.items, i)

\* C6 witness: a listing of two Notifications of different created_at, the
\* later one first.
C6_Witness ==
    /\ last.req.op = "list_notifications" /\ last.status = 200
    /\ Len(last.body.items) = 2
    /\ \E i, j \in FindNotifications(last.req.email) :
          /\ notification[i].created_at < notification[j].created_at
          /\ last.body.items[1] = NotificationItem(notification[j])
          /\ last.body.items[2] = NotificationItem(notification[i])

\* C7: with the datastore handle None every handler answers 500 'Database not
\* available', issues no datastore read or write and changes nothing.
C7_DatabaseNotAvailable ==
    db = None =>
        /\ ~touched
        /\ authuser = <<>> /\ notification = <<>> /\ registered = {}
        /\ \A t \in Threads : pc[t] = "idle"
        /\ last.req.op # "none"
           => (last.status = 500 /\ last.body = Detail("Database not available"))

\* C7 witness: without a datastore, mark_all_read was refused twice in a row.
C7_Witness ==
    db = None /\ last.req.op = "mark_all_read" /\ last.again /\ last.status = 500

\* C8: no step deletes or changes a User, none deletes a Notification or
\* changes its user_email, title or body, no read goes from true to false, and
\* a step that changes a Notification is mark_all_read setting read to true.
C8_OnlyMarkAllReadChanges ==
    [][ /\ \/ authuser' = authuser
           \/ \A u \in Range(authuser) : u \in Range(authuser')
        /\ \/ notification' = notification
           \/ \A n \in Range(notification) :
                 \E m \in Range(notification') :
                    /\ m._id = n._id
                    /\ m.user_email = n.user_email /\ m.title = n.title /\ m.body = n.body
                    /\ n.read => m.read
                    /\ m # n => ( /\ m = [n EXCEPT !.read = TRUE]
                                  /\ last'.req.op = "mark_all_read"
                                  /\ last'.req.email = n.user_email ) ]_vars

\* C8 witness: a Notification that was marked read is still read after later
\* requests of other kinds.
C8_Witness ==
    /\ last.req.op = "create_notification" /\ last.status = 200
    /\ \E n \in Range(notification) : n.read = TRUE

\* C9: in every reachable state every Notification's user_email is the email of
\* some User.
C9_ReferentialIntegrity ==
    \A n \in Range(notification) : FindUsers(n.user_email) # {}

\* C9 witness: a Notification is stored while a register and a
\* create_notification are between their find_one and their insert.
C9_Witness ==
    /\ notification # <<>>
    /\ \E t, u \in Threads : pc[t] = "register_insert" /\ pc[u] = "notification_insert"

\* C10: mark_all_read(email) changes nothing but the read field of the
\* Notifications of that email: the Notifications of other emails, the set of
\* Notification documents and authuser stay as they are, and it answers 'ok'
\* whether or not a User has that email.
C10_MarkAllReadFrame ==
    [][ (Responds("mark_all_read") /\ db # None) =>
          /\ last'.status = 200
          /\ authuser' = authuser
          /\ DOMAIN notification' = DOMAIN notification
          /\ \A i \in DOMAIN notification :
                /\ notification'[i] = [notification[i] EXCEPT !.read = notification'[i].read]
                /\ notification[i].user_email # last'.req.email
                   => notification'[i] = notification[i] ]_vars

\* C10 witness: mark_all_read has set a Notification of its email to read while
\* a Notification of another email is still unread.
C10_Witness ==
    /\ last.req.op = "mark_all_read" /\ last.status = 200
    /\ \E n \in Range(notification) : n.user_email = last.req.email /\ n.read = TRUE
    /\ \E n \in Range(notification) : n.user_email # last.req.email /\ n.read = FALSE
====
